---- MODULE Spec2Model ----
(***************************************************************************)
(* The Azure translation tools of langchain_community:                     *)
(*   translate_tool.py             AzureTranslateTool        ("translate_tool")            *)
(*   azure_translator/azureTranslate.py AzureTranslateTool   ("azureTranslate")            *)
(*   text_translate.py             AzureAITextTranslateTool  ("text_translate")            *)
(*   azure_file_translation.py     AzureFileTranslateTool    ("azure_file_translation")    *)
(*   azure_document_translation.py AzureDocumentTranslateTool("azure_document_translation")*)
(* One tool instance is modelled per behaviour: cls names its class, the   *)
(* other variables are its fields and the record of the last call made on  *)
(* it. Text is a sequence of one-character strings, so that "not text",    *)
(* str.lower, str.strip, str.join and os.path.splitext are computed.       *)
(***************************************************************************)
EXTENDS Integers, Sequences, FiniteSets, TLC

VARIABLES cls, text_translation_key, text_translation_endpoint, region,
          translate_client, supplied, nbuilds, last, backend, threads

vars == <<cls, text_translation_key, text_translation_endpoint, region,
          translate_client, supplied, nbuilds, last, backend, threads>>

(* The remote service's fixed behaviour and the threads calling into the   *)
(* instance; only the specifications SpecSeq and SpecThreads use them      *)
aux == <<backend, threads>>

(* Bound of the model: the handles one tool builds are counted up to here *)
MaxBuilds == 2

(***************************************************************************)
(* Characters and strings                                                  *)
(***************************************************************************)
UpperChars == <<"T", "X", "P", "D", "F", "O", "C", "L", "S", "H", "M">>
LowerChars == <<"t", "x", "p", "d", "f", "o", "c", "l", "s", "h", "m">>

Whitespace == {" ", "\n"}

Max(S) == CHOOSE x \in S : \A y \in S : y <= x

lower_char(c) ==
  IF \E i \in DOMAIN UpperChars : UpperChars[i] = c
  THEN LowerChars[CHOOSE i \in DOMAIN UpperChars : UpperChars[i] = c]
  ELSE c

upper_char(c) ==
  IF \E i \in DOMAIN LowerChars : LowerChars[i] = c
  THEN UpperChars[CHOOSE i \in DOMAIN LowerChars : LowerChars[i] = c]
  ELSE c

(* str.lower() *)
lower(s) == [i \in 1..Len(s) |-> lower_char(s[i])]

(* str.rfind(ch), 1-based, 0 when ch does not occur *)
rfind(s, ch) == Max({0} \cup {i \in 1..Len(s) : s[i] = ch})

(* os.path.splitext(p)[1] (posixpath): the text from the last dot of the   *)
(* last path component, unless that component has only leading dots        *)
(* before it.                                                              *)
splitext_ext(p) ==
  LET sepIndex == rfind(p, "/")
      dotIndex == rfind(p, ".")
  IN  IF /\ dotIndex > sepIndex
         /\ \E filenameIndex \in (sepIndex + 1)..(dotIndex - 1) :
                p[filenameIndex] # "."
      THEN SubSeq(p, dotIndex, Len(p))
      ELSE <<>>

(* str.strip() *)
strip(s) ==
  LET keep == {i \in 1..Len(s) : s[i] \notin Whitespace}
  IN  IF keep = {} THEN <<>>
      ELSE SubSeq(s, CHOOSE i \in keep : \A j \in keep : i <= j, Max(keep))

(* " ".join(parts) *)
RECURSIVE join(_)
join(parts) ==
  IF Len(parts) = 0 THEN <<>>
  ELSE IF Len(parts) = 1 THEN parts[1]
  ELSE parts[1] \o <<" ">> \o join(Tail(parts))

(***************************************************************************)
(* Values                                                                  *)
(***************************************************************************)
Classes == {"translate_tool", "azureTranslate", "text_translate",
            "azure_file_translation", "azure_document_translation"}

(* "" stands for an empty or missing (None) value: both are falsy. *)
(* A key, endpoint and region with all three there, one of them missing,   *)
(* or none there                                                           *)
Triples(k, e, r) ==
  { [key |-> k,  endpoint |-> e,  region |-> r],
    [key |-> "", endpoint |-> e,  region |-> r],
    [key |-> k,  endpoint |-> "", region |-> r],
    [key |-> k,  endpoint |-> e,  region |-> ""],
    [key |-> "", endpoint |-> "", region |-> ""] }

(* The keyword arguments given to a constructor *)
ConfigArgs == Triples("k1", "e1", "r1")

(* What os.getenv / get_from_dict_or_env find in the environment at a call *)
Envs == Triples("k2", "e2", "r2")

(* A connection handle: None, or a TextTranslationClient(endpoint=,        *)
(* credential=AzureKeyCredential(key), region=). id tells handle objects   *)
(* of one tool apart.                                                      *)
None == [built |-> FALSE, endpoint |-> "", key |-> "", region |-> "", id |-> 0]

TextTranslationClient(endpoint, key, reg, id) ==
  [built |-> TRUE, endpoint |-> endpoint, key |-> key, region |-> reg, id |-> id]

(* The client a caller builds and hands to AzureFileTranslateTool(...) *)
CallerClient == TextTranslationClient("e1", "k1", "", 0)

(* An exception: its type, its message as the list of texts it is made of  *)
(* (f"...: {e}" puts the message of e after its own), and the types of the *)
(* exceptions it was raised from while they were being handled             *)
(* (__context__), innermost last.                                          *)
NoExc == [type |-> "", msg |-> <<>>, cause |-> <<>>]

Error(type, msg) == [type |-> type, msg |-> <<msg>>, cause |-> <<>>]

(* raise type(f"{msg}: {e}") inside "except Exception as e": the exception *)
(* being handled becomes the __context__ of the new one                    *)
Wrap_reraise(type, msg, e) == e

Wrap_outside_handler(type, msg, e) ==
  [type |-> type, msg |-> <<msg>> \o e.msg, cause |-> <<>>]

Wrap(type, msg, e) ==
  [type |-> type, msg |-> <<msg>> \o e.msg, cause |-> <<e.type>> \o e.cause]

(* Texts: the empty string, a sentence, a sentence with whitespace around  *)
(* it, and file paths given as queries                                     *)
Hello   == <<"H", "i">>
Spaced  == <<" ", "O", "k", "\n">>
PathPdf == <<"a", ".", "p", "d", "f">>
PathTxt == <<"a", ".", "t", "x", "t">>
PathZip == <<"a", ".", "z", "i", "p">>

Texts == {<<>>, Hello, Spaced}

(* What _run is given: a text, or the path of a file to translate *)
Queries == Texts \cup {PathPdf, PathZip}

Langs == {"es", "fr"}

(* "" : the optional language argument is not given *)
LangArgs == Langs \cup {""}

(* The remote service's translation of text into lang *)
Translated(text, lang) == <<lang, ":">> \o text

Other == <<"?">>

(* Outcomes of one remote translate call: it raises an error of some kind, *)
(* or returns a list of items, each holding a list of translation texts.   *)
RemoteErrors == {"ClientAuthenticationError", "ServiceRequestError", "HttpResponseError"}

Raises(kind) == [raises |-> TRUE, kind |-> kind, resp |-> <<>>]
Returns(resp) == [raises |-> FALSE, kind |-> "", resp |-> resp]

Replies(text, lang) ==
  {Raises(k) : k \in RemoteErrors} \cup
  { Returns(<<>>),
    Returns(<< <<>> >>),
    Returns(<< <<Translated(text, lang)>> >>),
    Returns(<< <<text>> >>),
    Returns(<< <<Translated(text, lang), Other>>, <<Other>> >>) }

(* No remote call was made *)
NoReply == [raises |-> FALSE, kind |-> "none", resp |-> <<>>]

(* The request one call of translate_client.translate hands over:          *)
(* body=[{"Text": text}] / content=[InputTextItem(text=text)] and          *)
(* to_language=[lang] / to=[lang], on the handle client.                   *)
Request_stripped(text, lang, client) ==
  [texts |-> <<strip(text)>>, to |-> <<lang>>, client |-> client.id]

Request_with_default_language(text, lang, client) ==
  [texts |-> <<text>>, to |-> <<lang, "en">>, client |-> client.id]

Request(text, lang, client) ==
  [texts |-> <<text>>, to |-> <<lang>>, client |-> client.id]

(* The record of a call: which operation, its arguments, how it ended      *)
(* (outcome "return" or "raise"), the value or exception, the requests     *)
(* handed to the remote client during the call, the steps taken in order,  *)
(* the loader class chosen, whether the file was opened, what the remote   *)
(* call answered, what was on disk at the path a file was read from, and   *)
(* the language argument as the caller gave it ("" when not given).        *)
Call(op, arg, lang, outcome, exc, isNone, value, sent, steps, loader, opened) ==
  [op |-> op, arg |-> arg, lang |-> lang, outcome |-> outcome, exc |-> exc,
   isNone |-> isNone, value |-> value, sent |-> sent, steps |-> steps,
   loader |-> loader, opened |-> opened, reply |-> NoReply,
   file |-> [ok |-> FALSE, raw |-> <<>>, pages |-> <<>>], given |-> ""]

NoCall == Call("none", <<>>, "", "none", NoExc, FALSE, <<>>, <<>>, <<>>, "", FALSE)

Raise(op, arg, lang, exc, sent, steps) ==
  Call(op, arg, lang, "raise", exc, FALSE, <<>>, sent, steps, "", FALSE)

Return(op, arg, lang, value, sent, steps) ==
  Call(op, arg, lang, "return", NoExc, FALSE, value, sent, steps, "", FALSE)

ReturnNone(op, arg, lang, sent, steps) ==
  Call(op, arg, lang, "return", NoExc, TRUE, <<>>, sent, steps, "", FALSE)

(* A remote service that answers every request in one fixed way: kind      *)
(* names the way, ctor_ok whether TextTranslationClient(...) returns       *)
NoBackend == [kind |-> "none", ctor_ok |-> TRUE]

(* The threads calling into the instance, and where each one is *)
Threads == {"t1", "t2"}

IdleThread ==
  [pc |-> "idle", text |-> <<>>, lang |-> "", local |-> None, used |-> 0,
   reply |-> NoReply,
   out |-> [outcome |-> "none", exc |-> NoExc, isNone |-> FALSE,
            value |-> <<>>, sent |-> <<>>, steps |-> <<>>]]

NoThreads == [t \in Threads |-> IdleThread]

Init ==
  /\ cls = "none"
  /\ text_translation_key = ""
  /\ text_translation_endpoint = ""
  /\ region = ""
  /\ translate_client = None
  /\ supplied = [key |-> "", endpoint |-> "", region |-> ""]
  /\ nbuilds = 0
  /\ last = NoCall
  /\ backend = NoBackend
  /\ threads = NoThreads

(***************************************************************************)
(* Construction                                                            *)
(***************************************************************************)
(* TextTranslationClient(...) raised instead of returning a handle *)
ClientError == Error("Exception", "client construction failed")

(* The fields and bookkeeping of a freshly constructed instance *)
Constructed(c, key, endpoint, reg, client, builds) ==
  /\ cls' = c
  /\ text_translation_key' = key
  /\ text_translation_endpoint' = endpoint
  /\ region' = reg
  /\ translate_client' = client
  /\ supplied' = [key |-> key, endpoint |-> endpoint, region |-> reg]
  /\ nbuilds' = builds
  /\ last' = Return("__init__", <<>>, "", <<>>, <<>>, <<>>)
  /\ UNCHANGED aux

(* The constructor raised: no instance exists *)
NotConstructed(exc) ==
  /\ last' = Raise("__init__", <<>>, "", exc, <<>>, <<>>)
  /\ UNCHANGED <<cls, text_translation_key, text_translation_endpoint, region,
                 translate_client, supplied, nbuilds, aux>>

(* translate_tool.AzureTranslateTool(text_translation_key=, ...): a        *)
(* pydantic model whose fields default to "" and whose client starts None  *)
TT_init(key, endpoint, reg) ==
  /\ cls = "none"
  /\ Constructed("translate_tool", key, endpoint, reg, None, 0)

(* azureTranslate.AzureTranslateTool.__init__ *)
AT_init(key, endpoint, env, ctor_ok) ==
  /\ cls = "none"
  /\ LET translate_key == IF key # "" THEN key ELSE env.key
         translate_endpoint == IF endpoint # "" THEN endpoint ELSE env.endpoint
     IN  IF translate_key = "" \/ translate_endpoint = ""
         THEN NotConstructed(Error("ValueError", "Missing API key or endpoint for Azure Translator API."))
         ELSE IF ~ctor_ok THEN NotConstructed(ClientError)
         ELSE Constructed("azureTranslate", translate_key, translate_endpoint, "",
                TextTranslationClient(translate_endpoint, translate_key, "", 1), 1)

(* langchain_core.utils.get_from_dict_or_env: the value given if truthy,   *)
(* else the environment's, "" when neither is there (it then raises)       *)
get_from_dict_or_env(value, envvalue) == IF value # "" THEN value ELSE envvalue

(* text_translate.AzureAITextTranslateTool: the "before" validator builds  *)
(* the client from the resolved values; the fields keep what was passed    *)
TX_init(key, endpoint, reg, env, ctor_ok) ==
  /\ cls = "none"
  /\ LET k == get_from_dict_or_env(key, env.key)
         e == get_from_dict_or_env(endpoint, env.endpoint)
         r == get_from_dict_or_env(reg, env.region)
     IN  IF k = ""
         THEN NotConstructed(Error("ValueError", "Did not find text_translation_key"))
         ELSE IF e = ""
         THEN NotConstructed(Error("ValueError", "Did not find text_translation_endpoint"))
         ELSE IF r = ""
         THEN NotConstructed(Error("ValueError", "Did not find region"))
         ELSE IF ~ctor_ok THEN NotConstructed(ClientError)
         ELSE Constructed("text_translate", key, endpoint, reg,
                TextTranslationClient(e, k, r, 1), 1)

(* azure_file_translation.AzureFileTranslateTool(text_translation_key=,    *)
(* text_translation_endpoint=, translate_client=): validate_environment is *)
(* a plain classmethod, so nothing is checked or built at construction     *)
FT_init(key, endpoint) ==
  /\ cls = "none"
  /\ Constructed("azure_file_translation", key, endpoint, "", CallerClient, 0)

(* azure_document_translation.AzureDocumentTranslateTool.__init__ *)
DT_init(key, endpoint, env, ctor_ok) ==
  /\ cls = "none"
  /\ LET k == IF key # "" THEN key ELSE env.key
         e == IF endpoint # "" THEN endpoint ELSE env.endpoint
     IN  IF k = "" \/ e = ""
         THEN NotConstructed(Error("ValueError", "Azure Cognitive Services key and endpoint must be provided"))
         ELSE IF ~ctor_ok THEN NotConstructed(ClientError)
         ELSE Constructed("azure_document_translation", k, e, "",
                TextTranslationClient(e, k, "", 1), 1)

Construct ==
  \E cfg \in ConfigArgs, env \in Envs, ctor_ok \in BOOLEAN :
       \/ TT_init(cfg.key, cfg.endpoint, cfg.region)
       \/ AT_init(cfg.key, cfg.endpoint, env, ctor_ok)
       \/ TX_init(cfg.key, cfg.endpoint, cfg.region, env, ctor_ok)
       \/ FT_init(cfg.key, cfg.endpoint)
       \/ DT_init(cfg.key, cfg.endpoint, env, ctor_ok)

(***************************************************************************)
(* translate_tool.AzureTranslateTool                                       *)
(***************************************************************************)
(* validate_environment: the three fields are overwritten from the         *)
(* environment, then checked in turn                                       *)
validate_environment_check(key, endpoint, reg) ==
  IF key = ""
  THEN Error("ValueError", "AZURE_TRANSLATE_API_KEY is missing in environment variables")
  ELSE IF endpoint = ""
  THEN Error("ValueError", "AZURE_TRANSLATE_ENDPOINT is missing in environment variables")
  ELSE IF reg = ""
  THEN Error("ValueError", "AZURE_REGION is missing in environment variables")
  ELSE NoExc

validate_environment(env) ==
  /\ cls = "translate_tool"
  /\ text_translation_key' = env.key
  /\ text_translation_endpoint' = env.endpoint
  /\ region' = env.region
  /\ LET exc == validate_environment_check(env.key, env.endpoint, env.region)
     IN  last' = IF exc = NoExc
                 THEN ReturnNone("validate_environment", <<>>, "", <<>>, <<>>)
                 ELSE Raise("validate_environment", <<>>, "", exc, <<>>, <<>>)
  /\ UNCHANGED <<cls, translate_client, supplied, nbuilds, aux>>

ValidateEnvironment == \E env \in Envs : validate_environment(env)

(* setup_client: what it leaves in translate_client, whether it built a    *)
(* handle, and the exception it re-raised                                  *)
setup_client_always(ctor_ok) ==
  IF ctor_ok
  THEN [client |-> TextTranslationClient(text_translation_endpoint,
                      text_translation_key, "", nbuilds + 1),
        built |-> TRUE, exc |-> NoExc]
  ELSE [client |-> translate_client, built |-> FALSE, exc |-> ClientError]

setup_client_raise_after_build(ctor_ok) ==
  IF ~translate_client.built
  THEN IF ctor_ok
       THEN [client |-> TextTranslationClient(text_translation_endpoint,
                           text_translation_key, "", nbuilds + 1),
             built |-> TRUE, exc |-> ClientError]
       ELSE [client |-> translate_client, built |-> FALSE, exc |-> ClientError]
  ELSE [client |-> translate_client, built |-> FALSE, exc |-> NoExc]

setup_client(ctor_ok) ==
  IF ~translate_client.built
  THEN IF ctor_ok
       THEN [client |-> TextTranslationClient(text_translation_endpoint,
                           text_translation_key, "", nbuilds + 1),
             built |-> TRUE, exc |-> NoExc]
       ELSE [client |-> translate_client, built |-> FALSE, exc |-> ClientError]
  ELSE [client |-> translate_client, built |-> FALSE, exc |-> NoExc]

SetupClient ==
  /\ cls = "translate_tool"
  /\ nbuilds < MaxBuilds
  /\ \E ctor_ok \in BOOLEAN :
       LET s == setup_client(ctor_ok)
       IN  /\ translate_client' = s.client
           /\ nbuilds' = IF s.built THEN nbuilds + 1 ELSE nbuilds
           /\ last' = IF s.exc = NoExc
                      THEN ReturnNone("setup_client", <<>>, "", <<>>,
                                      IF s.built THEN <<"build">> ELSE <<>>)
                      ELSE Raise("setup_client", <<>>, "", s.exc, <<>>, <<>>)
  /\ UNCHANGED <<cls, text_translation_key, text_translation_endpoint, region,
                 supplied, aux>>

(***************************************************************************)
(* _translate_text / translate_text                                        *)
(***************************************************************************)
(* How a call ends, before it is recorded in last *)
ORaise(exc, sent, steps) ==
  [outcome |-> "raise", exc |-> exc, isNone |-> FALSE, value |-> <<>>,
   sent |-> sent, steps |-> steps]

OReturn_stripped(value, sent, steps) ==
  [outcome |-> "return", exc |-> NoExc, isNone |-> FALSE, value |-> strip(value),
   sent |-> sent, steps |-> steps]

OReturn(value, sent, steps) ==
  [outcome |-> "return", exc |-> NoExc, isNone |-> FALSE, value |-> value,
   sent |-> sent, steps |-> steps]

OReturnNone(sent, steps) ==
  [outcome |-> "return", exc |-> NoExc, isNone |-> TRUE, value |-> <<>>,
   sent |-> sent, steps |-> steps]

(* The exception the remote call raised *)
RemoteError(reply) == Error(reply.kind, reply.kind)

(* response[0] or translations[0] on an empty list *)
IndexError == Error("IndexError", "list index out of range")

(* self.translate_client.translate(...): the requests one _translate_text  *)
(* hands to the remote client                                              *)
translate_call_retry(text, lang, client, reply) ==
  IF reply.raises
  THEN <<Request(text, lang, client), Request(text, lang, client)>>
  ELSE <<Request(text, lang, client)>>

translate_call(text, lang, client, reply) == <<Request(text, lang, client)>>

(* translate_tool.AzureTranslateTool._translate_text *)
TT_translate_text(text, to_language, reply, ctor_ok) ==
  IF text = <<>>
  THEN [out |-> ORaise(Error("ValueError", "Input text for translation is empty."),
                       <<>>, <<>>),
        client |-> translate_client, built |-> FALSE]
  ELSE LET s == setup_client(ctor_ok)
       IN  IF s.exc # NoExc
           THEN [out |-> ORaise(s.exc, <<>>, <<>>), client |-> s.client,
                 built |-> FALSE]
           ELSE LET sent == translate_call(text, to_language, s.client, reply)
                    steps == (IF s.built THEN <<"build">> ELSE <<>>) \o <<"translate">>
                IN  [out |->
                       IF reply.raises
                       THEN ORaise(Wrap("RuntimeError", "Translation failed",
                                        RemoteError(reply)), sent, steps)
                       ELSE IF Len(reply.resp) = 0 \/ Len(reply.resp[1]) = 0
                       THEN ORaise(Wrap("RuntimeError", "Translation failed",
                                        IndexError), sent, steps)
                       ELSE OReturn(reply.resp[1][1], sent, steps),
                     client |-> s.client, built |-> s.built]

(* azureTranslate.AzureTranslateTool._translate_text *)
AT_translate_text(text, to_language, reply) ==
  IF text = <<>>
  THEN [out |-> OReturnNone(<<>>, <<>>), client |-> translate_client, built |-> FALSE]
  ELSE LET sent == translate_call(text, to_language, translate_client, reply)
           steps == <<"translate">>
       IN  [out |->
              IF reply.raises THEN ORaise(RemoteError(reply), sent, steps)
              ELSE IF Len(reply.resp) = 0 THEN OReturnNone(sent, steps)
              ELSE IF Len(reply.resp[1]) = 0 THEN ORaise(IndexError, sent, steps)
              ELSE OReturn(reply.resp[1][1], sent, steps),
            client |-> translate_client, built |-> FALSE]

(* text_translate.AzureAITextTranslateTool._translate_text (the code after *)
(* its first try statement is never reached)                               *)
TX_translate_text(text, to_language, reply) ==
  IF text = <<>>
  THEN [out |-> ORaise(Error("ValueError", "Input text for translation is empty."),
                       <<>>, <<>>),
        client |-> translate_client, built |-> FALSE]
  ELSE LET sent == translate_call(text, to_language, translate_client, reply)
           steps == <<"translate">>
       IN  [out |->
              IF reply.raises
              THEN ORaise(Wrap("RuntimeError", "Translation failed",
                               RemoteError(reply)), sent, steps)
              ELSE IF Len(reply.resp) = 0 \/ Len(reply.resp[1]) = 0
              THEN ORaise(Wrap("RuntimeError", "Translation failed", IndexError),
                          sent, steps)
              ELSE OReturn(reply.resp[1][1], sent, steps),
            client |-> translate_client, built |-> FALSE]

(* azure_file_translation.AzureFileTranslateTool._translate_text *)
FT_translate_text(text, target_language, reply) ==
  LET sent == translate_call(text, target_language, translate_client, reply)
      steps == <<"translate">>
  IN  [out |->
         IF reply.raises
         THEN ORaise(Wrap("RuntimeError", "An error occurred during translation",
                          RemoteError(reply)), sent, steps)
         ELSE IF Len(reply.resp) = 0
         THEN ORaise(Wrap("RuntimeError", "An error occurred during translation",
                          IndexError), sent, steps)
         ELSE IF Len(reply.resp[1]) = 0 THEN OReturn(<<>>, sent, steps)
         ELSE OReturn(reply.resp[1][1], sent, steps),
       client |-> translate_client, built |-> FALSE]

(* azure_document_translation.AzureDocumentTranslateTool.translate_text *)
DT_translate_text(text, target_language, reply) ==
  LET sent == translate_call(text, target_language, translate_client, reply)
      steps == <<"translate">>
  IN  [out |->
         IF reply.raises THEN ORaise(RemoteError(reply), sent, steps)
         ELSE IF Len(reply.resp) = 0 THEN ORaise(IndexError, sent, steps)
         ELSE IF Len(reply.resp[1]) = 0 THEN OReturn(<<>>, sent, steps)
         ELSE OReturn(reply.resp[1][1], sent, steps),
       client |-> translate_client, built |-> FALSE]

(* The language a call translates into when the argument is not given:     *)
(* the parameter default "en" (translate_tool, text_translate) or the      *)
(* tool's target_language field                                            *)
target_language(c) ==
  IF c = "azure_document_translation" THEN "es" ELSE "en"

to_language(c, lang_arg) == IF lang_arg = "" THEN target_language(c) ELSE lang_arg

(* The class's _translate_text *)
translate_text(c, text, lang, reply, ctor_ok) ==
  CASE c = "translate_tool" -> TT_translate_text(text, lang, reply, ctor_ok)
    [] c = "azureTranslate" -> AT_translate_text(text, lang, reply)
    [] c = "text_translate" -> TX_translate_text(text, lang, reply)
    [] c = "azure_file_translation" -> FT_translate_text(text, lang, reply)
    [] c = "azure_document_translation" -> DT_translate_text(text, lang, reply)

(* _run: translate_tool and text_translate return _translate_text's        *)
(* outcome; the other three wrap every exception in a RuntimeError         *)
run_message(c) ==
  CASE c = "azureTranslate" -> "Error while running AzureTranslateTool"
    [] c = "azure_file_translation" -> "Error while running AzureFileTranslateTool"
    [] c = "azure_document_translation" -> "Error while running AzureDocumentTranslateTool"
    [] OTHER -> ""

run(c, query, lang, reply, ctor_ok) ==
  LET t == translate_text(c, query, lang, reply, ctor_ok)
  IN  IF c \in {"translate_tool", "text_translate"} \/ t.out.outcome # "raise"
      THEN t
      ELSE [t EXCEPT !.out.exc = Wrap("RuntimeError", run_message(c), t.out.exc)]

(* Records the outcome r of operation op in the tool's state *)
Finish_reset_on_failure(op, arg, given, lang, reply, r) ==
  /\ translate_client' = IF r.out.outcome = "raise" THEN None ELSE r.client
  /\ nbuilds' = IF r.built THEN nbuilds + 1 ELSE nbuilds
  /\ last' = [Call(op, arg, lang, r.out.outcome, r.out.exc, r.out.isNone,
                   r.out.value, r.out.sent, r.out.steps, "", FALSE)
               EXCEPT !.reply = IF Len(r.out.sent) > 0 THEN reply ELSE NoReply,
                      !.given = given]
  /\ UNCHANGED <<cls, text_translation_key, text_translation_endpoint, region,
                 supplied, aux>>

Finish(op, arg, given, lang, reply, r) ==
  /\ translate_client' = r.client
  /\ nbuilds' = IF r.built THEN nbuilds + 1 ELSE nbuilds
  /\ last' = [Call(op, arg, lang, r.out.outcome, r.out.exc, r.out.isNone,
                   r.out.value, r.out.sent, r.out.steps, "", FALSE)
               EXCEPT !.reply = IF Len(r.out.sent) > 0 THEN reply ELSE NoReply,
                      !.given = given]
  /\ UNCHANGED <<cls, text_translation_key, text_translation_endpoint, region,
                 supplied, aux>>

(* Whether TextTranslationClient(...) returns a handle when a call builds  *)
(* one; only translate_tool builds handles inside calls                    *)
CtorOutcomes == IF cls = "translate_tool" THEN BOOLEAN ELSE {TRUE}

(* tool._translate_text(text[, lang]) *)
TranslateText ==
  /\ cls \in Classes
  /\ nbuilds < MaxBuilds
  /\ \E text \in Texts, lang_arg \in LangArgs, ctor_ok \in CtorOutcomes :
       /\ cls = "azureTranslate" => lang_arg # ""
       /\ LET lang == to_language(cls, lang_arg)
          IN  \E reply \in Replies(text, lang) :
                Finish("_translate_text", text, lang_arg, lang, reply,
                       translate_text(cls, text, lang, reply, ctor_ok))

(* tool._run(query[, to_language]); the file and document tools take no    *)
(* language argument                                                       *)
RunArgs(lang_arg) ==
  /\ cls = "azureTranslate" => lang_arg # ""
  /\ cls \in {"azure_file_translation", "azure_document_translation"}
       => lang_arg = ""

Run ==
  /\ cls \in Classes
  /\ nbuilds < MaxBuilds
  /\ \E query \in Queries, lang_arg \in LangArgs, ctor_ok \in CtorOutcomes :
       /\ RunArgs(lang_arg)
       /\ LET lang == to_language(cls, lang_arg)
          IN  \E reply \in Replies(query, lang) :
                Finish("_run", query, lang_arg, lang, reply,
                       run(cls, query, lang, reply, ctor_ok))

(***************************************************************************)
(* _read_text_from_file / read_text_from_file (file and document tools)    *)
(***************************************************************************)
Ext(name) ==
  CASE name = "txt"  -> <<".", "t", "x", "t">>
    [] name = "pdf"  -> <<".", "p", "d", "f">>
    [] name = "docx" -> <<".", "d", "o", "c", "x">>
    [] name = "pptx" -> <<".", "p", "p", "t", "x">>
    [] name = "xlsx" -> <<".", "x", "l", "s", "x">>
    [] name = "xml"  -> <<".", "x", "m", "l">>
    [] name = "html" -> <<".", "h", "t", "m", "l">>

(* loader_map.get(file_extension): the loader class, "" for None *)
loader_map_get_pdf_default(file_extension) ==
  CASE file_extension = Ext("docx") -> "UnstructuredWordDocumentLoader"
    [] file_extension = Ext("pptx") -> "UnstructuredPowerPointLoader"
    [] file_extension = Ext("xlsx") -> "UnstructuredExcelLoader"
    [] file_extension = Ext("xml")  -> "UnstructuredXMLLoader"
    [] file_extension = Ext("html") -> "UnstructuredHTMLLoader"
    [] file_extension = Ext("txt")  -> ""
    [] OTHER -> "UnstructuredPDFLoader"

loader_map_get(file_extension) ==
  CASE file_extension = Ext("pdf")  -> "UnstructuredPDFLoader"
    [] file_extension = Ext("docx") -> "UnstructuredWordDocumentLoader"
    [] file_extension = Ext("pptx") -> "UnstructuredPowerPointLoader"
    [] file_extension = Ext("xlsx") -> "UnstructuredExcelLoader"
    [] file_extension = Ext("xml")  -> "UnstructuredXMLLoader"
    [] file_extension = Ext("html") -> "UnstructuredHTMLLoader"
    [] OTHER -> ""

(* file_extension = os.path.splitext(file_path)[1].lower() *)
file_extension_as_written(file_path) == splitext_ext(file_path)

file_extension(file_path) == lower(splitext_ext(file_path))

(* What is on disk at a path: nothing readable (open or load raises), or a *)
(* file with its raw text and the page_content of the documents a loader   *)
(* makes of it                                                             *)
Unreadable == [ok |-> FALSE, raw |-> <<>>, pages |-> <<>>]

File(raw, pages) == [ok |-> TRUE, raw |-> raw, pages |-> pages]

Files ==
  { Unreadable,
    File(<<>>, <<>>),
    File(<<" ", "H", "i", "\n">>, <<Hello>>),
    File(Hello, << <<" ", "H", "i">>, <<"Y", "o", " ">> >>) }

FileError == Error("FileNotFoundError", "No such file or directory")

(* _read_text / read_text: open(file_path, "r", encoding="utf-8"), then    *)
(* file.read().strip()                                                     *)
read_text_unstripped(op, file_path, file, steps) ==
  IF ~file.ok
  THEN Call(op, file_path, "", "raise", FileError, FALSE, <<>>, <<>>,
            steps \o <<"open">>, "", TRUE)
  ELSE Call(op, file_path, "", "return", NoExc, FALSE, file.raw, <<>>,
            steps \o <<"open", "read">>, "", TRUE)

read_text(op, file_path, file, steps) ==
  IF ~file.ok
  THEN Call(op, file_path, "", "raise", FileError, FALSE, <<>>, <<>>,
            steps \o <<"open">>, "", TRUE)
  ELSE Call(op, file_path, "", "return", NoExc, FALSE, strip(file.raw), <<>>,
            steps \o <<"open", "read">>, "", TRUE)

(* The outcome of _read_text_from_file(file_path) when file is at the path *)
read_text_from_file_open_first(file_path, file) ==
  LET ext == file_extension(file_path)
      loader_class == loader_map_get(ext)
      op == "_read_text_from_file"
  IN  IF ~file.ok
      THEN Call(op, file_path, "", "raise", FileError, FALSE, <<>>, <<>>,
                <<"open">>, "", TRUE)
      ELSE IF ext = Ext("txt")
      THEN read_text(op, file_path, file, <<"open", "detect", "resolve">>)
      ELSE IF loader_class = ""
      THEN Call(op, file_path, "", "raise",
                Error("ValueError", "Unsupported file type"), FALSE, <<>>, <<>>,
                <<"open", "detect", "resolve">>, "", TRUE)
      ELSE Call(op, file_path, "", "return", NoExc, FALSE, join(file.pages), <<>>,
                <<"open", "detect", "resolve", "load", "join">>, loader_class, TRUE)

read_text_from_file(file_path, file) ==
  LET ext == file_extension(file_path)
      loader_class == loader_map_get(ext)
      op == "_read_text_from_file"
  IN  IF ext = Ext("txt")
      THEN read_text(op, file_path, file, <<"detect", "resolve">>)
      ELSE IF loader_class = ""
      THEN Call(op, file_path, "", "raise",
                Error("ValueError", "Unsupported file type"), FALSE, <<>>, <<>>,
                <<"detect", "resolve">>, "", FALSE)
      ELSE IF ~file.ok
      THEN Call(op, file_path, "", "raise", FileError, FALSE, <<>>, <<>>,
                <<"detect", "resolve", "load">>, loader_class, TRUE)
      ELSE Call(op, file_path, "", "return", NoExc, FALSE, join(file.pages), <<>>,
                <<"detect", "resolve", "load", "join">>, loader_class, TRUE)

(* tool._read_text_from_file(file_path) for a path of the set P *)
ReadTextFromFile(P) ==
  /\ cls \in {"azure_file_translation", "azure_document_translation"}
  /\ \E file_path \in P, file \in Files :
       last' = [read_text_from_file(file_path, file) EXCEPT !.file = file]
  /\ UNCHANGED <<cls, text_translation_key, text_translation_endpoint, region,
                 translate_client, supplied, nbuilds, aux>>

ReadQuery == ReadTextFromFile({PathPdf, PathTxt, PathZip})

Next ==
  \/ Construct
  \/ ValidateEnvironment
  \/ SetupClient
  \/ TranslateText
  \/ Run
  \/ ReadQuery

Spec == Init /\ [][Next]_vars

(***************************************************************************)
(* File reading alone, over many paths: an instance of the file or the     *)
(* document tool, as constructed with a key and an endpoint, on which      *)
(* _read_text_from_file is called                                          *)
(***************************************************************************)
(* Every upper/lower-case spelling of an extension (the dot stays) *)
Spellings(e) ==
  { [i \in 1..Len(e) |-> IF i \in U THEN upper_char(e[i]) ELSE e[i]] :
      U \in SUBSET (2..Len(e)) }

Formats == {"txt", "pdf", "docx", "pptx", "xlsx", "xml", "html"}

OtherExts ==
  { <<>>, <<".">>, <<".", "z", "i", "p">>, <<".", "t", "x">>,
    <<".", "t", "x", "t", "x">>, <<".", "d", "o", "c">>, <<"p", "d", "f">> }

OtherStems ==
  { <<>>, <<"d", ".", "d", "/", "a">>, <<"d", "/">>, <<".">>,
    <<"a", ".", "p", "d", "f">>, <<"a", ".", "t", "x", "t", "/", "b">> }

Paths ==
  {<<"a">> \o e : e \in UNION {Spellings(Ext(f)) : f \in Formats} \cup OtherExts}
  \cup {st \o e : st \in OtherStems, e \in {Ext(f) : f \in Formats} \cup OtherExts}

InitRead ==
  /\ cls \in {"azure_file_translation", "azure_document_translation"}
  /\ text_translation_key = "k1"
  /\ text_translation_endpoint = "e1"
  /\ region = ""
  /\ translate_client = IF cls = "azure_file_translation" THEN CallerClient
                        ELSE TextTranslationClient("e1", "k1", "", 1)
  /\ supplied = [key |-> "k1", endpoint |-> "e1", region |-> ""]
  /\ nbuilds = IF cls = "azure_file_translation" THEN 0 ELSE 1
  /\ last = Return("__init__", <<>>, "", <<>>, <<>>, <<>>)
  /\ backend = NoBackend
  /\ threads = NoThreads

ReadPath == ReadTextFromFile(Paths)

NextRead == ReadPath

SpecRead == InitRead /\ [][NextRead]_vars

(***************************************************************************)
(* Sequential _run calls against a remote service that answers every       *)
(* request in one fixed way (a deterministic test double) and a client     *)
(* constructor that always returns or always raises.                       *)
(***************************************************************************)
ReplyKinds ==
  RemoteErrors \cup {"empty", "no translations", "translated", "two items", "echo"}

(* What the service of the given kind answers to text and lang *)
BackendReply(kind, text, lang) ==
  CASE kind \in RemoteErrors     -> Raises(kind)
    [] kind = "empty"            -> Returns(<<>>)
    [] kind = "no translations"  -> Returns(<< <<>> >>)
    [] kind = "translated"       -> Returns(<< <<Translated(text, lang)>> >>)
    [] kind = "two items"        ->
         Returns(<< <<Translated(text, lang), Other>>, <<Other>> >>)
    [] kind = "echo"             -> Returns(<< <<text>> >>)

Backends == [kind : ReplyKinds, ctor_ok : BOOLEAN]

InitSeq ==
  /\ cls = "none"
  /\ text_translation_key = ""
  /\ text_translation_endpoint = ""
  /\ region = ""
  /\ translate_client = None
  /\ supplied = [key |-> "", endpoint |-> "", region |-> ""]
  /\ nbuilds = 0
  /\ last = NoCall
  /\ backend \in Backends
  /\ threads = NoThreads

(* tool._run(query[, to_language]) against the fixed service *)
RunSeq ==
  /\ cls \in Classes
  /\ nbuilds < MaxBuilds
  /\ \E query \in Queries, lang_arg \in LangArgs :
       /\ RunArgs(lang_arg)
       /\ LET lang == to_language(cls, lang_arg)
              reply == BackendReply(backend.kind, query, lang)
          IN  Finish("_run", query, lang_arg, lang, reply,
                     run(cls, query, lang, reply, backend.ctor_ok))

NextSeq == Construct \/ RunSeq

SpecSeq == InitSeq /\ [][NextSeq]_vars

(***************************************************************************)
(* Threads calling translate_tool's _translate_text on one instance. The   *)
(* method takes no lock, so the steps of one call interleave with those of *)
(* another: the presence check of setup_client, the construction of the    *)
(* client, the assignment to self.translate_client, and the remote call    *)
(* on whatever self.translate_client holds when it is made.                *)
(***************************************************************************)
InitThreads ==
  /\ cls \in {"translate_tool", "azure_file_translation"}
  /\ text_translation_key = "k1"
  /\ text_translation_endpoint = "e1"
  /\ region = IF cls = "translate_tool" THEN "r1" ELSE ""
  /\ translate_client = IF cls = "translate_tool" THEN None ELSE CallerClient
  /\ supplied = [key |-> "k1", endpoint |-> "e1", region |-> region]
  /\ nbuilds = 0
  /\ last = Return("__init__", <<>>, "", <<>>, <<>>, <<>>)
  /\ backend = NoBackend
  /\ threads = NoThreads

ThreadStep(t, th) ==
  /\ threads' = [threads EXCEPT ![t] = th]
  /\ UNCHANGED <<cls, text_translation_key, text_translation_endpoint, region,
                 supplied, last, backend>>

(* _run(query[, to_language]) is entered and calls _translate_text:       *)
(* translate_tool checks "if not text" and goes on to setup_client, the    *)
(* file tool takes self.target_language and goes on to the remote call     *)
T_Enter(t) ==
  /\ threads[t].pc = "idle"
  /\ \E text \in Texts, lang_arg \in LangArgs :
       /\ RunArgs(lang_arg)
       /\ LET lang == to_language(cls, lang_arg)
              th == [threads[t] EXCEPT !.text = text, !.lang = lang]
          IN  ThreadStep(t,
                IF cls = "azure_file_translation"
                THEN [th EXCEPT !.pc = "call"]
                ELSE IF text = <<>>
                THEN [th EXCEPT !.pc = "done",
                                !.out = run(cls, text, lang, NoReply, TRUE).out]
                ELSE [th EXCEPT !.pc = "check"])
  /\ UNCHANGED <<translate_client, nbuilds>>

(* setup_client: "if not self.translate_client:" *)
T_Check(t) ==
  /\ threads[t].pc = "check"
  /\ ThreadStep(t, [threads[t] EXCEPT
                      !.pc = IF ~translate_client.built THEN "construct"
                             ELSE "call"])
  /\ UNCHANGED <<translate_client, nbuilds>>

(* setup_client: TextTranslationClient(endpoint=..., credential=...)       *)
(* returns a new handle, or raises and setup_client re-raises              *)
T_Construct(t) ==
  /\ threads[t].pc = "construct"
  /\ \E ctor_ok \in BOOLEAN :
       IF ctor_ok
       THEN /\ ThreadStep(t, [threads[t] EXCEPT
                                !.pc = "assign",
                                !.local = TextTranslationClient(
                                            text_translation_endpoint,
                                            text_translation_key, "",
                                            nbuilds + 1)])
            /\ nbuilds' = nbuilds + 1
       ELSE /\ ThreadStep(t, [threads[t] EXCEPT
                                !.pc = "done",
                                !.out = ORaise(ClientError, <<>>, <<>>)])
            /\ nbuilds' = nbuilds
  /\ UNCHANGED translate_client

(* setup_client: "self.translate_client = ..." *)
T_Assign(t) ==
  /\ threads[t].pc = "assign"
  /\ translate_client' = threads[t].local
  /\ ThreadStep(t, [threads[t] EXCEPT !.pc = "call"])
  /\ UNCHANGED nbuilds

(* "response = self.translate_client.translate(...)" on the handle the     *)
(* field holds now, and the rest of _translate_text and _run               *)
T_Call_shared_body(t) ==
  /\ threads[t].pc = "call"
  /\ LET u == CHOOSE u \in Threads : threads[u].pc # "idle"
     IN  \E reply \in Replies(threads[u].text, threads[u].lang) :
           ThreadStep(t, [threads[t] EXCEPT
                            !.pc = "done",
                            !.used = translate_client.id,
                            !.reply = reply,
                            !.out = run(cls, threads[u].text, threads[u].lang,
                                        reply, TRUE).out])
  /\ UNCHANGED <<translate_client, nbuilds>>

T_Call(t) ==
  /\ threads[t].pc = "call"
  /\ \E reply \in Replies(threads[t].text, threads[t].lang) :
       ThreadStep(t, [threads[t] EXCEPT
                        !.pc = "done",
                        !.used = translate_client.id,
                        !.reply = reply,
                        !.out = run(cls, threads[t].text, threads[t].lang,
                                    reply, TRUE).out])
  /\ UNCHANGED <<translate_client, nbuilds>>

NextThreads ==
  \E t \in Threads :
    T_Enter(t) \/ T_Check(t) \/ T_Construct(t) \/ T_Assign(t) \/ T_Call(t)

SpecThreads == InitThreads /\ [][NextThreads]_vars

(***************************************************************************)
(* Properties                                                              *)
(***************************************************************************)
FileTools == {"azure_file_translation", "azure_document_translation"}

(* The call recorded in last is a translate call: _translate_text of any   *)
(* of the tools (translate_text in the document tool)                      *)
IsTranslate == last.op = "_translate_text"

IsRun == last.op = "_run"

(* e is the extension of path p in some upper/lower-case spelling: p ends  *)
(* with it, and the file name before it is not empty or dots only          *)
HasExtension(p, e) ==
  LET start == Len(p) - Len(e) + 1
  IN  /\ start > 1
      /\ SubSeq(p, start, Len(p)) \in Spellings(e)
      /\ \E i \in 1..(start - 1) :
           /\ p[i] \notin {".", "/"}
           /\ \A j \in i..(start - 1) : p[j] # "/"

(* The format the extension of p stands for, "Unsupported" when none *)
ExpectedFormat(p) ==
  IF \E f \in Formats : HasExtension(p, Ext(f))
  THEN CHOOSE f \in Formats : HasExtension(p, Ext(f))
  ELSE "Unsupported"

(* The text a file of supported format at path p can be extracted to *)
ExtractedTexts(p) ==
  {read_text_from_file(p, file).value : file \in {f \in Files : f.ok}}

(* Step a comes before step b in steps *)
StepBefore(steps, a, b) ==
  \E i, j \in DOMAIN steps : i < j /\ steps[i] = a /\ steps[j] = b

(* Step a comes before step b in the recorded call *)
Before(a, b) == StepBefore(last.steps, a, b)

(* C1: every translate call whose input text is empty fails with a         *)
(* validation error (ValueError), the remote client's translate operation  *)
(* is invoked zero times during the call, and the call returns no value.   *)
C1_EmptyTextFailsBeforeRemoteCall ==
  (IsTranslate /\ last.arg = <<>>) =>
     /\ last.outcome = "raise"
     /\ last.exc.type = "ValueError"
     /\ Len(last.sent) = 0

(* C2: when run is given the path of a document of a supported format, it  *)
(* detects the format, resolves the extractor, extracts the text and then  *)
(* invokes the backend, in this order; the text sent to the backend is the *)
(* text extracted from the file, never the path string itself, and run     *)
(* returns the backend's translation of the extracted text.                *)
C2_RunExtractsThenTranslates ==
  (IsRun /\ cls \in FileTools /\ last.arg \in Queries \ Texts
         /\ ExpectedFormat(last.arg) # "Unsupported") =>
     /\ Before("detect", "resolve")
     /\ Before("resolve", "translate")
     /\ \A i \in DOMAIN last.sent :
          /\ last.sent[i].texts # <<last.arg>>
          /\ \E t \in ExtractedTexts(last.arg) : last.sent[i].texts = <<t>>
     /\ last.outcome = "return" =>
          \E t \in ExtractedTexts(last.arg) : last.value = Translated(t, last.lang)

(* C3: when run is given a file path whose extension is not in the         *)
(* supported set (archive.zip), run fails with the unsupported-format      *)
(* error and the backend's translate operation is invoked zero times.      *)
C3_RunRejectsUnsupportedFile ==
  (IsRun /\ cls \in FileTools /\ last.arg \in Queries \ Texts
         /\ ExpectedFormat(last.arg) = "Unsupported") =>
     /\ last.outcome = "raise"
     /\ "Unsupported file type" \in {last.exc.msg[i] : i \in DOMAIN last.exc.msg}
     /\ Len(last.sent) = 0

IsRead == last.op = "_read_text_from_file"

(* The format a call of _read_text_from_file took the file for, read off   *)
(* what it did: the loader class it instantiated, the file opened without  *)
(* a loader (plain text), or neither                                       *)
DetectedFormat ==
  CASE last.loader = "UnstructuredPDFLoader" -> "pdf"
    [] last.loader = "UnstructuredWordDocumentLoader" -> "docx"
    [] last.loader = "UnstructuredPowerPointLoader" -> "pptx"
    [] last.loader = "UnstructuredExcelLoader" -> "xlsx"
    [] last.loader = "UnstructuredXMLLoader" -> "xml"
    [] last.loader = "UnstructuredHTMLLoader" -> "html"
    [] last.loader = "" /\ last.opened -> "txt"
    [] OTHER -> "Unsupported"

(* C4: format detection is a function of the lowercased file extension     *)
(* only: a path whose extension is an upper/lower-case spelling of .txt,   *)
(* .pdf, .docx, .pptx, .xlsx, .html or .xml is taken for that format, and  *)
(* a path with any other extension or with none is taken as unsupported.   *)
C4_DetectionByLowercasedExtension ==
  IsRead => DetectedFormat = ExpectedFormat(last.arg)

(* C4 occurs: a PDF path spelled with capitals went to the PDF loader *)
C4_Witness ==
  /\ IsRead
  /\ last.arg = <<"a", ".", "P", "d", "F">>
  /\ last.loader = "UnstructuredPDFLoader"

(* C5: extracting from a document of unsupported format fails with the     *)
(* unsupported-format error whatever the file holds, and no loader is      *)
(* instantiated and the file is not read.                                  *)
C5_UnsupportedAlwaysFails ==
  (IsRead /\ ExpectedFormat(last.arg) = "Unsupported") =>
     /\ last.outcome = "raise"
     /\ last.exc = Error("ValueError", "Unsupported file type")
     /\ last.loader = ""
     /\ ~last.opened
     /\ last.steps = <<"detect", "resolve">>

(* C5 occurs: a .zip path was rejected *)
C5_Witness ==
  /\ IsRead
  /\ last.arg = <<"a", ".", "z", "i", "p">>
  /\ last.outcome = "raise"

(* C6 as stated: each translate invocation with non-empty text performs    *)
(* exactly one call of the remote client's translate operation.            *)
C6_ExactlyOneRemoteCall ==
  (IsTranslate /\ last.arg # <<>>) => Len(last.sent) = 1

(* C6 amended: each translate invocation with non-empty text performs      *)
(* exactly one call of the remote client's translate operation, whether    *)
(* that call succeeds or fails, and never more; it performs none only when *)
(* building the connection handle raised before the call.                  *)
C6_OneRemoteCallUnlessSetupFails ==
  (IsTranslate /\ last.arg # <<>>) =>
     /\ Len(last.sent) <= 1
     /\ Len(last.sent) = 0 =>
          /\ cls = "translate_tool"
          /\ last.outcome = "raise"
          /\ last.exc = ClientError
          /\ ~translate_client.built

(* C6 occurs: the remote call failed and was made once *)
C6_Witness ==
  /\ IsTranslate
  /\ last.arg = Hello
  /\ last.reply.raises
  /\ last.outcome = "raise"
  /\ Len(last.sent) = 1

(* C7: when the remote call succeeds but the response's translations list  *)
(* is empty, translate fails with an error; it never returns an empty      *)
(* string.                                                                 *)
C7_EmptyTranslationsFail ==
  (IsTranslate /\ last.arg # <<>> /\ last.reply = Returns(<< <<>> >>)) =>
     /\ last.outcome = "raise"
     /\ ~(last.outcome = "return" /\ last.value = <<>>)

(* C8: no backend instance with an empty key or endpoint exists:           *)
(* construction with an empty or missing key or endpoint fails.            *)
C8_NoInstanceWithoutCredentials ==
  cls \in Classes =>
     /\ text_translation_key # ""
     /\ text_translation_endpoint # ""

(* C9: the key, endpoint and region of a constructed backend keep the      *)
(* values it was constructed with, whatever is called on it.               *)
C9_ConfigurationUnchanged ==
  (cls \in Classes /\ supplied.key # "" /\ supplied.endpoint # "") =>
     /\ text_translation_key = supplied.key
     /\ text_translation_endpoint = supplied.endpoint
     /\ region = supplied.region

(* What C10 asks of every step *)
C10_Step ==
  cls \in Classes =>
     /\ translate_client.built => translate_client' = translate_client
     /\ nbuilds' <= 1
     /\ Len(last'.sent) > 0 =>
          /\ translate_client'.built
          /\ \A i \in DOMAIN last'.sent :
               last'.sent[i].client = translate_client'.id
     /\ (~translate_client.built /\ Len(last'.sent) > 0) =>
          /\ nbuilds' = nbuilds + 1
          /\ StepBefore(last'.steps, "build", "translate")

(* C10: over the calls on one backend the connection handle is built at    *)
(* most once; a handle that is there is reused unchanged by every call; a  *)
(* call that finds it absent builds it before the remote call, and every   *)
(* remote call goes through the handle the backend holds.                  *)
C10_HandleBuiltOnceAndReused == [][C10_Step]_vars

(* C10 occurs: a later call reused the handle an earlier call built *)
C10_Witness ==
  /\ cls = "translate_tool"
  /\ nbuilds = 1
  /\ IsTranslate
  /\ last.steps = <<"translate">>
  /\ Len(last.sent) = 1
  /\ last.sent[1].client = translate_client.id

(***************************************************************************)
(* C11: when several threads call _translate_text on one translate_tool    *)
(* instance whose client is not yet built, the client is constructed       *)
(* exactly once and every thread's remote call is made on that one client. *)
(***************************************************************************)
C11_HandleConstructedOnce ==
  /\ nbuilds <= 1
  /\ \A t1, t2 \in Threads :
       (threads[t1].used # 0 /\ threads[t2].used # 0)
         => threads[t1].used = threads[t2].used

(* The kinds that can be inspected on an exception: its own type and the   *)
(* types along its __context__ chain                                       *)
KindsOf(exc) == {exc.type} \cup {exc.cause[i] : i \in DOMAIN exc.cause}

RaisedOn(kind) ==
  IF IsRun
  THEN run(cls, last.arg, last.lang, Raises(kind), TRUE).out.exc.type
  ELSE translate_text(cls, last.arg, last.lang, Raises(kind), TRUE).out.exc.type

(* C13: when the remote call reports an authentication failure,            *)
(* _translate_text and _run raise an error whose kind is that of an        *)
(* authentication failure, distinct from the kind they raise for a         *)
(* transient failure or any other failure, so that a caller retrying on    *)
(* the transient kind does not retry.                                      *)
C13_AuthFailureIsDistinctKind ==
  ((IsTranslate \/ IsRun) /\ last.reply = Raises("ClientAuthenticationError"))
    => /\ last.outcome = "raise"
       /\ \A k \in RemoteErrors \ {"ClientAuthenticationError"} :
            last.exc.type # RaisedOn(k)

(* C14: every _run call on non-empty input ends by returning one complete  *)
(* translated string or by raising one error; it never returns None and    *)
(* never an empty placeholder.                                             *)
C14_RunReturnsStringOrRaises ==
  (IsRun /\ last.arg # <<>>)
    => \/ last.outcome = "raise" /\ last.exc # NoExc
       \/ /\ last.outcome = "return"
          /\ ~last.isNone
          /\ last.value # <<>>

(* The steps of detecting a format and extracting text from a file *)
ExtractionSteps == {"detect", "resolve", "open", "read", "load", "join"}

(* C15: when _run is given a raw non-empty string, no format detection or  *)
(* extraction step is executed and the text handed to the remote client is *)
(* exactly that string.                                                    *)
C15_RawTextIsSubmittedAsGiven ==
  (IsRun /\ last.arg \in Texts \ {<<>>})
    => /\ \A i \in DOMAIN last.steps : last.steps[i] \notin ExtractionSteps
       /\ ~last.opened
       /\ last.loader = ""
       /\ \A i \in DOMAIN last.sent : last.sent[i].texts = <<last.arg>>

C15_Witness ==
  /\ IsRun
  /\ last.arg = Spaced
  /\ Len(last.sent) = 1
  /\ last.sent[1].texts = <<Spaced>>

(* C16: the request handed to the remote client carries exactly one text   *)
(* item, equal to the input text, and exactly one target language, equal   *)
(* to the requested target language.                                       *)
C16_RequestCarriesOneTextOneLanguage ==
  (IsTranslate \/ IsRun)
    => \A i \in DOMAIN last.sent :
         /\ Len(last.sent[i].texts) = 1
         /\ last.sent[i].texts[1] = last.arg
         /\ Len(last.sent[i].to) = 1
         /\ last.sent[i].to[1] = last.lang

C16_Witness ==
  /\ IsTranslate
  /\ cls = "text_translate"
  /\ last.arg = Hello
  /\ last.lang = "fr"
  /\ Len(last.sent) = 1
  /\ last.sent[1].texts = <<Hello>>
  /\ last.sent[1].to = <<"fr">>

(* C17: when the remote call succeeds, _run returns exactly the text of    *)
(* the first translation of the first response item, unchanged: not        *)
(* trimmed, not substituted, also when the service answers with the input  *)
(* text itself because it already is in the target language.               *)
C17_RunReturnsFirstTranslationVerbatim ==
  (/\ IsRun
   /\ last.reply.kind = ""
   /\ ~last.reply.raises
   /\ Len(last.reply.resp) > 0
   /\ Len(last.reply.resp[1]) > 0)
    => /\ last.outcome = "return"
       /\ ~last.isNone
       /\ last.value = last.reply.resp[1][1]

C17_Witness ==
  /\ IsRun
  /\ last.arg = Spaced
  /\ last.reply = Returns(<< <<Spaced>> >>)
  /\ last.outcome = "return"
  /\ last.value = Spaced

C18_Step ==
  (/\ last.op = "_run"
   /\ last'.op = "_run"
   /\ last'.arg = last.arg
   /\ last'.lang = last.lang)
    => /\ last'.outcome = last.outcome
       /\ last'.exc = last.exc
       /\ last'.isNone = last.isNone
       /\ last'.value = last.value

(* C18: two sequential _run calls with identical input and target language *)
(* against a deterministic service end the same way (same returned value   *)
(* or same error), also when the first call builds the client and the      *)
(* second reuses it.                                                       *)
C18_SequentialRunsAgree == [][C18_Step]_vars

C18_Witness ==
  /\ cls = "translate_tool"
  /\ backend = [kind |-> "translated", ctor_ok |-> TRUE]
  /\ nbuilds = 1
  /\ IsRun
  /\ last.arg = Hello
  /\ last.steps = <<"translate">>
  /\ last.outcome = "return"

(* C19: detecting the format raises no error and does not open the file.   *)
(* Every call of _read_text_from_file first detects and resolves; for an   *)
(* unknown or missing extension the detection yields no loader as a value, *)
(* and it is the resolve step that raises, with the file never opened;     *)
(* any other error comes from opening or loading the file afterwards.      *)
C19_DetectionRaisesNothing ==
  IsRead
    => /\ Len(last.steps) >= 2
       /\ SubSeq(last.steps, 1, 2) = <<"detect", "resolve">>
       /\ last.outcome = "raise"
            => \/ /\ ExpectedFormat(last.arg) = "Unsupported"
                  /\ last.exc = Error("ValueError", "Unsupported file type")
                  /\ Len(last.steps) = 2
                  /\ ~last.opened
               \/ /\ ExpectedFormat(last.arg) # "Unsupported"
                  /\ ~last.file.ok
                  /\ last.exc = FileError
                  /\ last.steps[3] \in {"open", "load"}
                  /\ last.opened

C19_Witness ==
  /\ IsRead
  /\ last.arg = <<"a">>
  /\ ~last.file.ok
  /\ last.outcome = "raise"
  /\ last.exc.type = "ValueError"
  /\ ~last.opened

(* t is s without the whitespace at its two ends *)
IsTrimOf(t, s) ==
  \E i \in 0..Len(s), j \in 0..Len(s) :
    /\ i <= j
    /\ t = SubSeq(s, i + 1, j)
    /\ \A k \in 1..i : s[k] \in Whitespace
    /\ \A k \in (j + 1)..Len(s) : s[k] \in Whitespace
    /\ t # <<>> => (t[1] \notin Whitespace /\ t[Len(t)] \notin Whitespace)

(* C20: for a plain-text (.txt) path the tool opens and reads the file     *)
(* itself and instantiates no loader class, and what it returns is the     *)
(* file's content without its leading and trailing whitespace.             *)
C20_PlainTextReadDirectly ==
  (IsRead /\ ExpectedFormat(last.arg) = "txt")
    => /\ last.loader = ""
       /\ last.opened
       /\ \A i \in DOMAIN last.steps : last.steps[i] \notin {"load", "join"}
       /\ last.file.ok => /\ last.outcome = "return"
                          /\ IsTrimOf(last.value, last.file.raw)
       /\ ~last.file.ok => last.outcome = "raise"

C20_Witness ==
  /\ IsRead
  /\ last.arg = <<"a", ".", "T", "x", "t">>
  /\ last.file.raw = <<" ", "H", "i", "\n">>
  /\ last.outcome = "return"
  /\ last.value = Hello

(* C21: for every supported format other than plain text, the extracted    *)
(* text is the page_content of the loaded documents in order, joined by    *)
(* exactly one space, with no whitespace left at either end of the result. *)
C21_SegmentsJoinedAndTrimmed ==
  (/\ IsRead
   /\ ExpectedFormat(last.arg) \notin {"txt", "Unsupported"}
   /\ last.file.ok)
    => /\ last.outcome = "return"
       /\ IsTrimOf(last.value, join(last.file.pages))

(* C22: constructing (or validating) a tool whose key and endpoint are     *)
(* there never fails for the missing region alone.                         *)
C22_MissingRegionIsNoConfigurationError ==
  last.op \in {"__init__", "validate_environment"}
    => last.exc \notin
         { Error("ValueError", "Did not find region"),
           Error("ValueError", "AZURE_REGION is missing in environment variables") }

(* Whether msg contains the text part *)
Contains(msg, part) == \E i \in DOMAIN msg : msg[i] = part

C24_ValidateEnvironmentBuildsClient ==
  (/\ cls = "translate_tool"
   /\ last.op = "validate_environment"
   /\ last.outcome = "return")
    => /\ translate_client.built
       /\ nbuilds = 1
       /\ translate_client.endpoint = text_translation_endpoint

(* C25: _run("") of the file tool never returns a translation: it raises a *)
(* RuntimeError whose message contains "Error while running                *)
(* AzureFileTranslateTool", as every failure inside its _run does.         *)
C25_FileToolRejectsEmptyInput ==
  (IsRun /\ cls = "azure_file_translation")
    => /\ last.arg = <<>> => last.outcome = "raise"
       /\ last.outcome = "raise"
            => /\ last.exc.type = "RuntimeError"
               /\ Contains(last.exc.msg, "Error while running AzureFileTranslateTool")

CallOps == {"_translate_text", "_run"}

(* The configuration of the tool is left as it was *)
ConfigurationKept ==
  /\ text_translation_key' = text_translation_key
  /\ text_translation_endpoint' = text_translation_endpoint
  /\ region' = region

C26_StepAsStated ==
  (last'.op \in CallOps /\ last'.outcome = "raise")
    => /\ translate_client' = translate_client
       /\ ConfigurationKept

C26_Step ==
  /\ (last'.op \in CallOps /\ last'.outcome = "raise")
       => /\ ConfigurationKept
          /\ \/ translate_client' = translate_client
             \/ /\ ~translate_client.built
                /\ translate_client' =
                     TextTranslationClient(text_translation_endpoint,
                                           text_translation_key, "", nbuilds + 1)
  /\ (/\ last.op \in CallOps
      /\ last.outcome = "raise"
      /\ last'.op \in CallOps
      /\ Len(last'.sent) > 0
      /\ last'.reply.kind = ""
      /\ Len(last'.reply.resp) > 0
      /\ Len(last'.reply.resp[1]) > 0)
       => /\ last'.outcome = "return"
          /\ last'.value = last'.reply.resp[1][1]

C27_ConcurrentRunsAreIndependent ==
  \A t \in Threads :
    threads[t].pc = "done"
      => /\ \A i \in DOMAIN threads[t].out.sent :
              /\ threads[t].out.sent[i].texts = <<threads[t].text>>
              /\ threads[t].out.sent[i].to = <<threads[t].lang>>
         /\ threads[t].reply = Returns(<< <<Translated(threads[t].text,
                                                        threads[t].lang)>> >>)
              <=> /\ threads[t].out.outcome = "return"
                  /\ ~threads[t].out.isNone
                  /\ threads[t].out.value =
                       Translated(threads[t].text, threads[t].lang)
                  /\ Len(threads[t].reply.resp) = 1
                  /\ Len(threads[t].reply.resp[1]) = 1

C27_Witness ==
  /\ cls = "translate_tool"
  /\ nbuilds = 2
  /\ threads["t1"].pc = "done"
  /\ threads["t2"].pc = "done"
  /\ threads["t1"].text = Hello
  /\ threads["t2"].text = Spaced
  /\ threads["t1"].lang = "es"
  /\ threads["t2"].lang = "fr"
  /\ threads["t1"].out.value = Translated(Hello, "es")
  /\ threads["t2"].out.value = Translated(Spaced, "fr")

(* C28: when the file tool's _translate_text is called without a target    *)
(* language, the text is translated into Spanish ("es"); when a target     *)
(* language is given, into that language.                                  *)
C28_FileToolDefaultsToSpanish ==
  (IsTranslate /\ cls = "azure_file_translation")
    => \A i \in DOMAIN last.sent :
         last.sent[i].to = <<IF last.given = "" THEN "es" ELSE last.given>>

(* C29: in every reachable state of a translate_tool constructed with key  *)
(* and endpoint, a client that exists was built from the key and endpoint  *)
(* the tool holds now: no sequence of setup_client, validate_environment   *)
(* and translate calls leaves a client built from earlier, different       *)
(* credentials.                                                            *)
C29_HandleBuiltFromCurrentCredentials ==
  (/\ cls = "translate_tool"
   /\ supplied.key # ""
   /\ supplied.endpoint # ""
   /\ translate_client.built)
    => /\ translate_client.key = text_translation_key
       /\ translate_client.endpoint = text_translation_endpoint
====
